---- MODULE Spec2Model ----
(***************************************************************************)
(* Model of load_snapshots.py: main() dumps the tables users, projects and *)
(* activities from a postgres read replica to S3 and COPYs each blob into  *)
(* Redshift; the Redshift connection is committed once, after the dumps.   *)
(***************************************************************************)
EXTENDS Integers, Sequences, FiniteSets, TLC

(* ---------------------------------------------------------------- bounds *)

\* Columns of the cursor description a record is built from: 0..MaxCols.
MaxCols == 3
\* Runs of main(), one after the other, in the rerun specification.
MaxRuns == 2
\* Rows every source table holds when the run starts: 0..MaxRows.
MaxRows == 2
\* Rows other sessions insert into (and commit to) the source during the run.
MaxInserts == 1
\* Midnights the system clock passes during the run.
MaxTicks == 1

(* ----------------------------------------------------------------- dates *)

\* A datetime is modelled by its calendar date [y, m, d].
IsLeap(y) == (y % 4 = 0 /\ y % 100 # 0) \/ y % 400 = 0

DaysInMonth(y, m) ==
    IF m = 2 THEN (IF IsLeap(y) THEN 29 ELSE 28)
    ELSE IF m \in {4, 6, 9, 11} THEN 30 ELSE 31

\* date + timedelta(days=1): the clock passing midnight
NextDay(dt) ==
    IF dt.d < DaysInMonth(dt.y, dt.m) THEN [dt EXCEPT !.d = dt.d + 1]
    ELSE IF dt.m < 12 THEN [y |-> dt.y, m |-> dt.m + 1, d |-> 1]
    ELSE [y |-> dt.y + 1, m |-> 1, d |-> 1]

\* datetime.today() - timedelta(days=1)
Yesterday(dt) ==
    IF dt.d > 1 THEN [dt EXCEPT !.d = dt.d - 1]
    ELSE IF dt.m > 1
         THEN [y |-> dt.y, m |-> dt.m - 1, d |-> DaysInMonth(dt.y, dt.m - 1)]
         ELSE [y |-> dt.y - 1, m |-> 12, d |-> 31]

\* The month and the day formatted like the year, with "{}".
Pad2Plain(n) == ToString(n)

\* strftime("%m"), strftime("%d"): two digits, zero-padded
Pad2(n) == IF n < 10 THEN "0" \o ToString(n) ELSE ToString(n)

\* strftime("%Y-%m-%d")
StrfYmd(dt) == ToString(dt.y) \o "-" \o Pad2(dt.m) \o "-" \o Pad2(dt.d)

\* "snapshot_year={}/snapshot_month={}/snapshot_day={}".format(
\*     day.year, day.strftime("%m"), day.strftime("%d"))
DateParams(dt) ==
    "snapshot_year=" \o ToString(dt.y) \o "/snapshot_month=" \o Pad2(dt.m)
        \o "/snapshot_day=" \o Pad2(dt.d)

\* Dates the run may start on (the value of datetime.today() at the start).
\* Yesterday over a month's end in a leap year is exercised by ProbeTodays,
\* the formatting over every date of two years by ProbeDates, below.
StartDates ==
    { [y |-> 2023, m |-> 3, d |-> 6] }

(* ---------------------------------------------------------------- tables *)

\* The three dump() calls of main(), in program order.
Tables == <<"users", "projects", "activities">>

NumTables == Len(Tables)

TableIds == 1..NumTables

\* The leaf of each dump_to path.
Leaf(t) == IF Tables[t] = "activities" THEN "incremental" ELSE "data"

\* dump_to = "<table>/{}/<leaf>".format(date_params)
DumpTo(t, dt) == Tables[t] \o "/" \o DateParams(dt) \o "/" \o Leaf(t)

\* The columns each query selects (curs.description), in order.
Columns(t) ==
    IF Tables[t] = "users"
    THEN <<"id", "created_at", "updated_at", "deleted_at", "name">>
    ELSE IF Tables[t] = "projects"
    THEN <<"id", "repository_id", "created_at", "updated_at", "deleted_at",
           "name">>
    ELSE <<"id", "event", "created_at", "updated_at", "project_id",
           "user_id">>

\* Row k of source table t, created on date dt: one value per selected
\* column, in column order.  Values are kept as text.
SourceRow(t, k, dt) ==
    [i \in 1..Len(Columns(t)) |->
        IF Columns(t)[i] = "id" THEN ToString(k)
        ELSE IF Columns(t)[i] \in {"created_at", "updated_at"} THEN StrfYmd(dt)
        ELSE IF Columns(t)[i] = "deleted_at" THEN "null"
        ELSE Columns(t)[i] \o ToString(k)]

\* Index of a column in curs.description (0 when absent).
ColumnIndex(cols, name) ==
    IF \E i \in 1..Len(cols) : cols[i] = name
    THEN CHOOSE i \in 1..Len(cols) : cols[i] = name
    ELSE 0

RECURSIVE SelectSeq2(_, _, _)
\* The rows of s whose column c equals v, in order.
SelectSeq2(s, c, v) ==
    IF s = <<>> THEN <<>>
    ELSE IF Head(s)[c] = v THEN <<Head(s)>> \o SelectSeq2(Tail(s), c, v)
    ELSE SelectSeq2(Tail(s), c, v)

\* The result set of table t's query over the source state db, with the
\* bind parameter day: activities is filtered by
\* WHERE DATE(created_at) = %s, the other two queries select every row.
QueryResult(t, db, dt) ==
    IF Tables[t] = "activities"
    THEN SelectSeq2(db[t], ColumnIndex(Columns(t), "created_at"), StrfYmd(dt))
    ELSE db[t]

(* ------------------------------------------------------------ serializer *)

\* data[key] = value on a Python dict kept as a sequence of <<key, value>>
\* in insertion order: an existing key keeps its place and takes the value.
DictSet(data, key, value) ==
    IF \E i \in 1..Len(data) : data[i][1] = key
    THEN [i \in 1..Len(data) |->
            IF data[i][1] = key THEN <<key, value>> ELSE data[i]]
    ELSE Append(data, <<key, value>>)

RECURSIVE FillColumns(_, _, _, _)
\* for idx, col in enumerate(curs.description): data[col.name] = row[idx]
FillColumns(data, cols, row, idx) ==
    IF idx > Len(cols) THEN data
    ELSE FillColumns(DictSet(data, cols[idx], row[idx]), cols, row, idx + 1)

\* The record of one row: snapshot_date is yesterday by the clock at the
\* moment the row is handled, then the columns.
MakeRecord(cols, row, today) ==
    FillColumns(<<<<"snapshot_date", StrfYmd(Yesterday(today))>>>>,
                cols, row, 1)

\* The value of a key of a record ("" when absent).
DictGet(data, key) ==
    IF \E i \in 1..Len(data) : data[i][1] = key
    THEN data[CHOOSE i \in 1..Len(data) : data[i][1] = key][2]
    ELSE ""

(* ----------------------------------------------------------------- state *)

VARIABLES
    pc,          \* the statement main() (or the dump() it called) is at
    cur,         \* the dump() call in progress: index into Tables, 0 before
    clock,       \* the system clock: the date datetime.today() returns
    ticks,       \* midnights passed since the start
    day,         \* main()'s local `day`
    src,         \* committed contents of the source tables
    inserts,     \* rows inserted by other sessions so far
    isolation,   \* isolation level of the read_replica session
    srcTxn,      \* the read_replica transaction
    txnSnap,     \* the snapshot taken by its first statement
    cursorRows,  \* the result set held by the open server-side cursor
    fetched,     \* rows of it already iterated
    temp,        \* the NamedTemporaryFile of each dump() call
    objects,     \* the bucket: path -> lines of the object
    whPending,   \* COPYs executed in the open Redshift transaction
    whCommitted, \* COPYs committed to Redshift (visible rows)
    commits,     \* redshift.commit() calls that succeeded
    notified,    \* dd_events.create calls made
    error,       \* the exception that ended the run
    exitStatus,  \* the exit status of the process, -1 while it runs
    dumpStatus,  \* per dump() call: not_called, running, returned, raised
    trace,       \* per dump() call: the steps it has started
    uploaded,    \* dump() calls whose upload_file returned
    copied,      \* dump() calls whose COPY statement returned
    seen,        \* per dump() call: the source state its query read
    results,     \* per dump() call: the complete result set of its query
    prev,        \* what the previous run of main() left, for a rerun
    probe        \* one call of a pure function: its arguments and result

vars == <<pc, cur, clock, ticks, day, src, inserts, isolation, srcTxn,
          txnSnap, cursorRows, fetched, temp, objects, whPending,
          whCommitted, commits, notified, error, exitStatus, dumpStatus,
          trace, uploaded, copied, seen, results, prev, probe>>

\* What no statement of dump() or main() changes.
staticVars == <<isolation, prev, probe>>

envVars == <<clock, ticks, src, inserts>>

NoDate == [y |-> 0, m |-> 0, d |-> 0]

NoSnap == <<>>

NoError == [table |-> 0, step |-> "none"]

\* A dump's temporary file: `buffered` is what the file object holds in the
\* process (line 34 writes there), `lines` the complete lines on disk.
NoTemp ==
    [exists |-> FALSE, closed |-> FALSE, buffered |-> <<>>, lines |-> <<>>]

\* No run of main() before this one.
NoPrev ==
    [run |-> 0, day |-> NoDate, uploaded |-> {}, objects |-> <<>>,
     results |-> <<>>, leaked |-> 0]

NoProbe == [kind |-> "none"]

\* psycopg2 leaves the isolation level to the server's
\* default_transaction_isolation; main() never sets it.
Isolations == {"read committed", "repeatable read"}

\* The statements of dump(), by the name used in pc, trace and error.
DumpSteps ==
    {"cursor", "mktemp", "execute", "fetch", "serialize", "write",
     "close_temp", "upload", "remove", "close_cursor", "copy"}

Terminal == {"done", "failed", "killed"}

\* The date a source row is created on: rows alternate between the day
\* before the start and the day before that.
InitCreated(k, today) ==
    IF k % 2 = 1 THEN Yesterday(today) ELSE Yesterday(Yesterday(today))

\* The state in which a first run of main() starts.
RunInit ==
    /\ pc = "connect"
    /\ cur = 0
    /\ clock \in StartDates
    /\ ticks = 0
    /\ day = NoDate
    /\ \E n \in 0..MaxRows :
          src = [t \in TableIds |->
                    [k \in 1..n |-> SourceRow(t, k, InitCreated(k, clock))]]
    /\ inserts = 0
    /\ isolation \in Isolations
    /\ srcTxn = "none"
    /\ txnSnap = NoSnap
    /\ cursorRows = <<>>
    /\ fetched = 0
    /\ temp = [t \in TableIds |-> NoTemp]
    /\ objects = <<>>
    /\ whPending = <<>>
    /\ whCommitted = <<>>
    /\ commits = 0
    /\ notified = 0
    /\ error = NoError
    /\ exitStatus = -1
    /\ dumpStatus = [t \in TableIds |-> "not_called"]
    /\ trace = [t \in TableIds |-> {}]
    /\ uploaded = {}
    /\ copied = {}
    /\ seen = [t \in TableIds |-> NoSnap]
    /\ results = [t \in TableIds |-> <<>>]

Init ==
    /\ RunInit
    /\ prev = NoPrev
    /\ probe = NoProbe

(* --------------------------------------------------------------- helpers *)

\* The statements of dump() as values of pc.
DumpPcs ==
    {"cursor", "mktemp", "execute", "iterate", "upload", "remove",
     "close_cursor", "copy"}

InDump == pc \in DumpPcs

\* trace after the running dump() call starts the step.
Started(step) == [trace EXCEPT ![cur] = @ \cup {step}]

\* The source state a statement of the read_replica session reads.  Under
\* read committed every statement takes a new snapshot; under repeatable
\* read every statement reads the snapshot of the transaction's first one.
StatementSnapshot ==
    IF isolation = "repeatable read" /\ srcTxn = "open" THEN txnSnap ELSE src

\* os.environ.get("DW_BUCKET"), read once per dump() call (line 20)
Bucket == "dw-bucket"

\* "s3://{0}/{1}".format(bucket, to_file)
S3Uri(bucket, toFile) == "s3://" \o bucket \o "/" \o toFile

\* bucket[path] = lines
PutObject(bucket, path, lines) ==
    [p \in DOMAIN bucket \cup {path} |->
        IF p = path THEN lines ELSE bucket[p]]

\* How many of the buffered lines of the open temporary file the disk may
\* take whole when the buffer is flushed: any number of them, none (disk
\* full) to all.  A line the disk took part of is no line of the file.
FlushChoices ==
    IF InDump /\ temp[cur].exists /\ ~temp[cur].closed
    THEN 0..Len(temp[cur].buffered) ELSE {0}

\* The temporary files once an exception raised at `step` has left main()
\* and the interpreter has exited, the disk having taken the first `taken`
\* buffered lines.  temp.close() (line 36) flushes, and leaves the file
\* object closed when it fails; a file still open is flushed by the
\* interpreter at shutdown.
TempAfterRaise(step, taken) ==
    IF InDump /\ temp[cur].exists /\ ~temp[cur].closed
    THEN [temp EXCEPT ![cur] =
             [exists |-> TRUE,
              closed |-> (step = "close_temp"),
              buffered |-> <<>>,
              lines |-> @.lines \o SubSeq(@.buffered, 1, taken)]]
    ELSE temp

\* The temporary files once the process has been ended without unwinding:
\* what the file objects had buffered dies with the process.
TempAfterKill ==
    [t \in TableIds |->
        IF temp[t].exists /\ ~temp[t].closed
        THEN [temp[t] EXCEPT !.buffered = <<>>] ELSE temp[t]]

\* The steps that can raise in the current state.
FailableNow ==
    IF pc \in {"done", "failed", "killed", "enter", "return"} THEN {}
    ELSE IF pc = "iterate"
    THEN {"fetch"} \cup
         (IF fetched < Len(cursorRows) THEN {"serialize", "write"}
          ELSE {"close_temp"})
    ELSE {pc}

unchangedLoad == <<whPending, whCommitted, commits, notified, copied>>

unchangedExtract == <<srcTxn, txnSnap, cursorRows, fetched, seen, results>>

unchangedEnd == <<error, exitStatus>>

(* ---------------------------------------------------------------- main() *)

\* lines 58-62: the two psycopg2.connect calls
Connect ==
    /\ pc = "connect"
    /\ pc' = "enter"
    /\ UNCHANGED <<cur, day, staticVars, temp, objects, dumpStatus, trace,
                   uploaded>>
    /\ UNCHANGED <<envVars, unchangedLoad, unchangedExtract, unchangedEnd>>

\* lines 65-86: entering `with read_replica`, computing day and the date
\* parameters, calling dump() for users
EnterTxn ==
    /\ pc = "enter"
    /\ day' = Yesterday(clock)
    /\ cur' = 1
    /\ pc' = "cursor"
    /\ UNCHANGED <<staticVars, temp, objects, dumpStatus, trace, uploaded>>
    /\ UNCHANGED <<envVars, unchangedLoad, unchangedExtract, unchangedEnd>>

(* ---------------------------------------------------------------- dump() *)

\* line 23: read_replica.cursor(name="warehouse_dump")
OpenCursor ==
    /\ pc = "cursor"
    /\ dumpStatus' = [dumpStatus EXCEPT ![cur] = "running"]
    /\ trace' = Started("cursor")
    /\ pc' = "mktemp"
    /\ UNCHANGED <<cur, day, staticVars, temp, objects, uploaded>>
    /\ UNCHANGED <<envVars, unchangedLoad, unchangedExtract, unchangedEnd>>

\* line 24: tempfile.NamedTemporaryFile(delete=False)
MakeTemp ==
    /\ pc = "mktemp"
    /\ temp' = [temp EXCEPT ![cur] =
                   [exists |-> TRUE, closed |-> FALSE, buffered |-> <<>>,
                    lines |-> <<>>]]
    /\ trace' = Started("mktemp")
    /\ pc' = "execute"
    /\ UNCHANGED <<cur, day, staticVars, objects, dumpStatus, uploaded>>
    /\ UNCHANGED <<envVars, unchangedLoad, unchangedExtract, unchangedEnd>>

\* line 26: curs.execute(query, params).  The first statement of the
\* session begins the transaction; the named cursor is declared over the
\* snapshot the statement reads.
Execute ==
    /\ pc = "execute"
    /\ srcTxn' = "open"
    /\ txnSnap' = IF srcTxn = "open" THEN txnSnap ELSE src
    /\ seen' = [seen EXCEPT ![cur] = StatementSnapshot]
    /\ cursorRows' = QueryResult(cur, StatementSnapshot, day)
    /\ results' = [results EXCEPT ![cur] = cursorRows']
    /\ fetched' = 0
    /\ trace' = Started("execute")
    /\ pc' = "iterate"
    /\ UNCHANGED <<cur, day, staticVars, temp, objects, dumpStatus, uploaded>>
    /\ UNCHANGED <<envVars, unchangedLoad, unchangedEnd>>

\* The upload indented into the loop: the file is uploaded after each row.
WriteRowUploading ==
    /\ pc = "iterate"
    /\ fetched < Len(cursorRows)
    /\ temp' = [temp EXCEPT ![cur].buffered =
                   Append(@, MakeRecord(Columns(cur),
                                        cursorRows[fetched + 1], clock))]
    /\ objects' = PutObject(objects, DumpTo(cur, day), temp'[cur].lines)
    /\ fetched' = fetched + 1
    /\ trace' = Started("fetch")
    /\ UNCHANGED <<pc, cur, day, staticVars, dumpStatus, uploaded>>
    /\ UNCHANGED <<srcTxn, txnSnap, cursorRows, seen, results>>
    /\ UNCHANGED <<envVars, unchangedLoad, unchangedEnd>>

\* lines 28-34: one pass of `for row in curs`: fetch the next row, build
\* its record with the clock as it is now, write its line to the file
\* object.  The rows of a run of this size stay below the buffer size, so
\* the line is buffered in the process and the file on disk is untouched.
WriteRow ==
    /\ pc = "iterate"
    /\ fetched < Len(cursorRows)
    /\ temp' = [temp EXCEPT ![cur].buffered =
                   Append(@, MakeRecord(Columns(cur),
                                        cursorRows[fetched + 1], clock))]
    /\ fetched' = fetched + 1
    /\ trace' = Started("fetch")
    /\ UNCHANGED <<pc, cur, day, staticVars, objects, dumpStatus, uploaded>>
    /\ UNCHANGED <<srcTxn, txnSnap, cursorRows, seen, results>>
    /\ UNCHANGED <<envVars, unchangedLoad, unchangedEnd>>

\* line 36: the cursor is exhausted; temp.close() flushes the buffer to
\* the file and closes it
CloseTemp ==
    /\ pc = "iterate"
    /\ fetched = Len(cursorRows)
    /\ temp' = [temp EXCEPT ![cur] =
                   [exists |-> TRUE, closed |-> TRUE, buffered |-> <<>>,
                    lines |-> @.lines \o @.buffered]]
    /\ trace' = Started("close_temp")
    /\ pc' = "upload"
    /\ UNCHANGED <<cur, day, staticVars, objects, dumpStatus, uploaded>>
    /\ UNCHANGED <<envVars, unchangedLoad, unchangedExtract, unchangedEnd>>

\* line 37: s3_resource.Object(bucket, to_file).upload_file(temp.name).
\* The object appears whole when the upload returns.
Upload ==
    /\ pc = "upload"
    /\ objects' = PutObject(objects, DumpTo(cur, day), temp[cur].lines)
    /\ uploaded' = uploaded \cup {cur}
    /\ trace' = Started("upload")
    /\ pc' = "remove"
    /\ UNCHANGED <<cur, day, staticVars, temp, dumpStatus>>
    /\ UNCHANGED <<envVars, unchangedLoad, unchangedExtract, unchangedEnd>>

\* line 38: os.remove(temp.name)
RemoveTemp ==
    /\ pc = "remove"
    /\ temp' = [temp EXCEPT ![cur] = NoTemp]
    /\ trace' = Started("remove")
    /\ pc' = "close_cursor"
    /\ UNCHANGED <<cur, day, staticVars, objects, dumpStatus, uploaded>>
    /\ UNCHANGED <<envVars, unchangedLoad, unchangedExtract, unchangedEnd>>

\* line 23, leaving the `with`: the cursor is closed
CloseCursor ==
    /\ pc = "close_cursor"
    /\ cursorRows' = <<>>
    /\ fetched' = 0
    /\ trace' = Started("close_cursor")
    /\ pc' = "copy"
    /\ UNCHANGED <<cur, day, staticVars, temp, objects, dumpStatus, uploaded>>
    /\ UNCHANGED <<srcTxn, txnSnap, seen, results>>
    /\ UNCHANGED <<envVars, unchangedLoad, unchangedEnd>>

\* A wrong call order: activities is dumped before projects.
AfterDumpReordered(t) ==
    IF t = 1 THEN [pc |-> "cursor", cur |-> 3]
    ELSE IF t = 3 THEN [pc |-> "cursor", cur |-> 2]
    ELSE [pc |-> "exit_txn", cur |-> t]

\* Where main() is after dump() number t returns: at the next dump() call
\* (lines 86, 98, 113), or leaving `with read_replica` after the last.
AfterDump(t) ==
    IF t < NumTables THEN [pc |-> "cursor", cur |-> t + 1]
    ELSE [pc |-> "exit_txn", cur |-> t]

\* The COPY statement with the leaf of the path written out as "data".
CopyWrongPath ==
    /\ pc = "copy"
    /\ whPending' = Append(whPending,
                        [table |-> cur,
                         uri |-> S3Uri(Bucket, Tables[cur] \o "/"
                                     \o DateParams(day) \o "/data"),
                         rows |-> objects[DumpTo(cur, day)]])
    /\ copied' = copied \cup {cur}
    /\ trace' = Started("copy")
    /\ dumpStatus' = [dumpStatus EXCEPT ![cur] = "returned"]
    /\ pc' = AfterDump(cur).pc
    /\ cur' = AfterDump(cur).cur
    /\ UNCHANGED <<day, staticVars, temp, objects, uploaded>>
    /\ UNCHANGED <<whCommitted, commits, notified>>
    /\ UNCHANGED <<envVars, unchangedExtract, unchangedEnd>>

\* The COPY statement on a connection in autocommit mode.
CopyAutocommit ==
    /\ pc = "copy"
    /\ whCommitted' = Append(whCommitted,
                        [table |-> cur,
                         uri |-> S3Uri(Bucket, DumpTo(cur, day)),
                         rows |-> objects[DumpTo(cur, day)]])
    /\ copied' = copied \cup {cur}
    /\ trace' = Started("copy")
    /\ dumpStatus' = [dumpStatus EXCEPT ![cur] = "returned"]
    /\ pc' = AfterDump(cur).pc
    /\ cur' = AfterDump(cur).cur
    /\ UNCHANGED <<day, staticVars, temp, objects, uploaded>>
    /\ UNCHANGED <<whPending, commits, notified>>
    /\ UNCHANGED <<envVars, unchangedExtract, unchangedEnd>>

\* lines 41-53: the COPY statement, executed in the open Redshift
\* transaction; dump() returns and main() goes on to the next call
Copy ==
    /\ pc = "copy"
    /\ DumpTo(cur, day) \in DOMAIN objects
    /\ whPending' = Append(whPending,
                        [table |-> cur,
                         uri |-> S3Uri(Bucket, DumpTo(cur, day)),
                         rows |-> objects[DumpTo(cur, day)]])
    /\ copied' = copied \cup {cur}
    /\ trace' = Started("copy")
    /\ dumpStatus' = [dumpStatus EXCEPT ![cur] = "returned"]
    /\ pc' = AfterDump(cur).pc
    /\ cur' = AfterDump(cur).cur
    /\ UNCHANGED <<day, staticVars, temp, objects, uploaded>>
    /\ UNCHANGED <<whCommitted, commits, notified>>
    /\ UNCHANGED <<envVars, unchangedExtract, unchangedEnd>>

(* ------------------------------------------------------- main(), the end *)

\* The datadog event created at the end of the `with` block, before the
\* commit of the warehouse.
ExitTxnNotifying ==
    /\ pc = "exit_txn"
    /\ srcTxn' = "committed"
    /\ notified' = notified + 1
    /\ pc' = "commit"
    /\ UNCHANGED <<cur, day, staticVars, temp, objects, dumpStatus, trace,
                   uploaded>>
    /\ UNCHANGED <<txnSnap, cursorRows, fetched, seen, results>>
    /\ UNCHANGED <<whPending, whCommitted, commits, copied>>
    /\ UNCHANGED <<envVars, unchangedEnd>>

\* redshift.commit() moved into the `with` block: the source transaction
\* is still open when the warehouse is committed.
ExitTxnStillOpen ==
    /\ pc = "exit_txn"
    /\ pc' = "commit"
    /\ UNCHANGED <<cur, day, staticVars, temp, objects, dumpStatus, trace,
                   uploaded>>
    /\ UNCHANGED <<srcTxn, txnSnap, cursorRows, fetched, seen, results>>
    /\ UNCHANGED <<envVars, unchangedLoad, unchangedEnd>>

\* line 65, leaving `with read_replica` normally: the source transaction
\* is committed
ExitTxn ==
    /\ pc = "exit_txn"
    /\ srcTxn' = "committed"
    /\ pc' = "commit"
    /\ UNCHANGED <<cur, day, staticVars, temp, objects, dumpStatus, trace,
                   uploaded>>
    /\ UNCHANGED <<txnSnap, cursorRows, fetched, seen, results>>
    /\ UNCHANGED <<envVars, unchangedLoad, unchangedEnd>>

\* line 117: redshift.commit(): every COPY of the transaction becomes
\* visible
Commit ==
    /\ pc = "commit"
    /\ whCommitted' = whCommitted \o whPending
    /\ whPending' = <<>>
    /\ commits' = commits + 1
    /\ pc' = "notify"
    /\ UNCHANGED <<cur, day, staticVars, temp, objects, dumpStatus, trace,
                   uploaded>>
    /\ UNCHANGED <<notified, copied>>
    /\ UNCHANGED <<envVars, unchangedExtract, unchangedEnd>>

\* lines 118-121: the log line and the datadog event
Notify ==
    /\ pc = "notify"
    /\ notified' = notified + 1
    /\ pc' = "return"
    /\ UNCHANGED <<cur, day, staticVars, temp, objects, dumpStatus, trace,
                   uploaded, error, exitStatus>>
    /\ UNCHANGED <<whPending, whCommitted, commits, copied>>
    /\ UNCHANGED <<envVars, unchangedExtract>>

\* lines 124-125: main() returns and the interpreter exits with status 0
Return ==
    /\ pc = "return"
    /\ exitStatus' = 0
    /\ pc' = "done"
    /\ UNCHANGED <<cur, day, staticVars, temp, objects, dumpStatus, trace,
                   uploaded, error, notified>>
    /\ UNCHANGED <<whPending, whCommitted, commits, copied>>
    /\ UNCHANGED <<envVars, unchangedExtract>>

(* ------------------------------------------------------------ exceptions *)

\* The exception leaves through a `finally: redshift.commit()`.
RaiseCommitting(step) ==
    /\ error' = [table |-> IF InDump THEN cur ELSE 0, step |-> step]
    /\ exitStatus' = 1
    /\ pc' = "failed"
    /\ trace' = IF InDump THEN Started(step) ELSE trace
    /\ dumpStatus' = IF InDump THEN [dumpStatus EXCEPT ![cur] = "raised"]
                     ELSE dumpStatus
    /\ srcTxn' = IF srcTxn = "open" THEN "rolledback" ELSE srcTxn
    /\ cursorRows' = <<>>
    /\ fetched' = 0
    /\ whCommitted' = whCommitted \o whPending
    /\ whPending' = <<>>
    /\ \E taken \in FlushChoices : temp' = TempAfterRaise(step, taken)
    /\ UNCHANGED <<cur, day, staticVars, objects, uploaded>>
    /\ UNCHANGED <<commits, notified, copied>>
    /\ UNCHANGED <<txnSnap, seen, results>>
    /\ UNCHANGED envVars

\* The exception of a dump() call is caught and logged around the three
\* calls: main() goes on to leave the `with` and to commit.
RaiseLogged(step) ==
    /\ error' = [table |-> IF InDump THEN cur ELSE 0, step |-> step]
    /\ exitStatus' = IF InDump THEN exitStatus ELSE 1
    /\ pc' = IF InDump THEN "exit_txn" ELSE "failed"
    /\ trace' = IF InDump THEN Started(step) ELSE trace
    /\ dumpStatus' = IF InDump THEN [dumpStatus EXCEPT ![cur] = "raised"]
                     ELSE dumpStatus
    /\ srcTxn' = IF InDump THEN srcTxn
                 ELSE IF srcTxn = "open" THEN "rolledback" ELSE srcTxn
    /\ cursorRows' = <<>>
    /\ fetched' = 0
    /\ whPending' = IF InDump THEN whPending ELSE <<>>
    /\ \E taken \in FlushChoices : temp' = TempAfterRaise(step, taken)
    /\ UNCHANGED <<cur, day, staticVars, objects, uploaded>>
    /\ UNCHANGED <<whCommitted, commits, notified, copied>>
    /\ UNCHANGED <<txnSnap, seen, results>>
    /\ UNCHANGED envVars

\* The exception of a dump() call is caught and logged inside the call:
\* main() goes on with the next dump() call.
RaiseContinuing(step) ==
    /\ error' = [table |-> IF InDump THEN cur ELSE 0, step |-> step]
    /\ exitStatus' = IF InDump THEN exitStatus ELSE 1
    /\ pc' = IF InDump THEN AfterDump(cur).pc ELSE "failed"
    /\ cur' = IF InDump THEN AfterDump(cur).cur ELSE cur
    /\ trace' = IF InDump THEN Started(step) ELSE trace
    /\ dumpStatus' = IF InDump THEN [dumpStatus EXCEPT ![cur] = "raised"]
                     ELSE dumpStatus
    /\ srcTxn' = IF InDump THEN srcTxn
                 ELSE IF srcTxn = "open" THEN "rolledback" ELSE srcTxn
    /\ cursorRows' = <<>>
    /\ fetched' = 0
    /\ whPending' = IF InDump THEN whPending ELSE <<>>
    /\ \E taken \in FlushChoices : temp' = TempAfterRaise(step, taken)
    /\ UNCHANGED <<day, staticVars, objects, uploaded>>
    /\ UNCHANGED <<whCommitted, commits, notified, copied>>
    /\ UNCHANGED <<txnSnap, seen, results>>
    /\ UNCHANGED envVars

\* The upload moved into a `finally`: whatever the file holds is uploaded
\* when the exception leaves dump().
RaiseUploading(step) ==
    /\ error' = [table |-> IF InDump THEN cur ELSE 0, step |-> step]
    /\ exitStatus' = 1
    /\ pc' = "failed"
    /\ trace' = IF InDump THEN Started(step) ELSE trace
    /\ dumpStatus' = IF InDump THEN [dumpStatus EXCEPT ![cur] = "raised"]
                     ELSE dumpStatus
    /\ srcTxn' = IF srcTxn = "open" THEN "rolledback" ELSE srcTxn
    /\ cursorRows' = <<>>
    /\ fetched' = 0
    /\ whPending' = <<>>
    /\ objects' = IF InDump /\ temp[cur].exists
                  THEN PutObject(objects, DumpTo(cur, day), temp[cur].lines)
                  ELSE objects
    /\ \E taken \in FlushChoices : temp' = TempAfterRaise(step, taken)
    /\ UNCHANGED <<cur, day, staticVars, uploaded>>
    /\ UNCHANGED <<whCommitted, commits, notified, copied>>
    /\ UNCHANGED <<txnSnap, seen, results>>
    /\ UNCHANGED envVars

\* The exception is caught at the top level and logged; the process
\* exits normally.
RaiseExitZero(step) ==
    /\ error' = [table |-> IF InDump THEN cur ELSE 0, step |-> step]
    /\ exitStatus' = 0
    /\ pc' = "failed"
    /\ trace' = IF InDump THEN Started(step) ELSE trace
    /\ dumpStatus' = IF InDump THEN [dumpStatus EXCEPT ![cur] = "raised"]
                     ELSE dumpStatus
    /\ srcTxn' = IF srcTxn = "open" THEN "rolledback" ELSE srcTxn
    /\ cursorRows' = <<>>
    /\ fetched' = 0
    /\ whPending' = <<>>
    /\ \E taken \in FlushChoices : temp' = TempAfterRaise(step, taken)
    /\ UNCHANGED <<cur, day, staticVars, objects, uploaded>>
    /\ UNCHANGED <<whCommitted, commits, notified, copied>>
    /\ UNCHANGED <<txnSnap, seen, results>>
    /\ UNCHANGED envVars

\* An exception raised by `step` propagates to the process boundary: no
\* statement of dump() or main() catches it.  Leaving `with curs` closes
\* the cursor, leaving `with read_replica` rolls the source transaction
\* back, and the process exits non-zero, closing the Redshift connection
\* with its transaction uncommitted.
Raise(step) ==
    /\ error' = [table |-> IF InDump THEN cur ELSE 0, step |-> step]
    /\ exitStatus' = 1
    /\ pc' = "failed"
    /\ trace' = IF InDump THEN Started(step) ELSE trace
    /\ dumpStatus' = IF InDump THEN [dumpStatus EXCEPT ![cur] = "raised"]
                     ELSE dumpStatus
    /\ srcTxn' = IF srcTxn = "open" THEN "rolledback" ELSE srcTxn
    /\ cursorRows' = <<>>
    /\ fetched' = 0
    /\ whPending' = <<>>
    /\ \E taken \in FlushChoices : temp' = TempAfterRaise(step, taken)
    /\ UNCHANGED <<cur, day, staticVars, objects, uploaded>>
    /\ UNCHANGED <<whCommitted, commits, notified, copied>>
    /\ UNCHANGED <<txnSnap, seen, results>>
    /\ UNCHANGED envVars

\* Any statement that talks to the database, the file system, S3 or
\* datadog may raise.
Fail == \E step \in FailableNow : Raise(step)

\* The signals that end the process: the interrupt from the keyboard, the
\* kill that cannot be caught, and the default signal of kill(1).
SIGINT == 2

SIGKILL == 9

SIGTERM == 15

Signals == {SIGINT, SIGKILL, SIGTERM}

\* The status of a process ended by signal sig, as its parent shell
\* reports it.
SignalStatus(sig) == 128 + sig

\* The temporary files once signal sig has ended the process.  SIGINT
\* raises KeyboardInterrupt: the interpreter unwinds and flushes the open
\* file at shutdown, as after an exception.  The other signals end the
\* process where it stands.
TempAfterSignal(sig, taken) ==
    IF sig = SIGINT THEN TempAfterRaise("interrupt", taken)
    ELSE TempAfterKill

\* A signal ends the process: no statement of main() runs after it; the
\* sessions end with their transactions uncommitted.
Interrupt ==
    /\ pc \notin {"done", "failed", "killed"}
    /\ pc' = "killed"
    /\ \E sig \in Signals :
          /\ exitStatus' = SignalStatus(sig)
          /\ \E taken \in FlushChoices :
                temp' = TempAfterSignal(sig, taken)
    /\ srcTxn' = IF srcTxn = "open" THEN "rolledback" ELSE srcTxn
    /\ cursorRows' = <<>>
    /\ fetched' = 0
    /\ whPending' = <<>>
    /\ UNCHANGED <<cur, day, staticVars, objects, uploaded, error,
                   dumpStatus, trace>>
    /\ UNCHANGED <<whCommitted, commits, notified, copied>>
    /\ UNCHANGED <<txnSnap, seen, results>>
    /\ UNCHANGED envVars

(* ----------------------------------------------------------- environment *)

progVars == <<pc, cur, day, staticVars, srcTxn, txnSnap, cursorRows,
              fetched, temp, objects, whPending, whCommitted, commits,
              notified, error, exitStatus, dumpStatus, trace, uploaded,
              copied, seen, results>>

\* The system clock passes midnight while the run is in progress.  The
\* program sees the clock only where it calls datetime.today() (lines 30
\* and 66), so the midnight is taken right before such a call.
Tick ==
    /\ pc = "enter" \/ (pc = "iterate" /\ fetched < Len(cursorRows))
    /\ ticks < MaxTicks
    /\ ticks' = ticks + 1
    /\ clock' = NextDay(clock)
    /\ UNCHANGED <<src, inserts>>
    /\ UNCHANGED progVars

\* Another session inserts a row into a source table and commits.  The
\* program sees the source only where it executes a query (line 26), so
\* the insert is taken right before such a statement.
InsertRow ==
    /\ pc = "execute"
    /\ inserts < MaxInserts
    /\ inserts' = inserts + 1
    /\ \E t \in TableIds :
          src' = [src EXCEPT ![t] =
                     Append(@, SourceRow(t, Len(@) + 1, Yesterday(clock)))]
    /\ UNCHANGED <<clock, ticks>>
    /\ UNCHANGED progVars

Next ==
    \/ Connect
    \/ EnterTxn
    \/ OpenCursor
    \/ MakeTemp
    \/ Execute
    \/ WriteRow
    \/ CloseTemp
    \/ Upload
    \/ RemoveTemp
    \/ CloseCursor
    \/ Copy
    \/ ExitTxn
    \/ Commit
    \/ Notify
    \/ Return
    \/ Fail
    \/ Interrupt
    \/ Tick
    \/ InsertRow

Spec == Init /\ [][Next]_vars

(* ---------------------------------------------------------------- claims *)

\* The tables with rows of this run visible in the warehouse.
VisibleTables == { whCommitted[i].table : i \in 1..Len(whCommitted) }

\* C1: in every state, after a failure or an interruption too, the tables
\* with visible rows of the run are none or all three; when the COPY of a
\* table fails, no row of an earlier table is visible.
C1_AllOrNothing ==
    /\ VisibleTables \in {{}, TableIds}
    /\ error.step = "copy" => VisibleTables = {}
    /\ (pc \in {"failed", "killed"} /\ commits = 0) => VisibleTables = {}

\* The COPY of projects failed after the COPY of users had been executed.
C1_Witness ==
    /\ pc = "failed"
    /\ error = [table |-> 2, step |-> "copy"]
    /\ 1 \in copied
    /\ VisibleTables = {}

\* C2: the warehouse is committed at most once and only after the COPY of
\* all three tables returned; a run in which a step of a dump() failed
\* never commits.
C2_CommitOnceAfterAllLoads ==
    /\ commits <= 1
    /\ commits = 1 => copied = TableIds
    /\ error.step \in DumpSteps => commits = 0

\* The commit has been executed, with three COPYs in it.
C2_Witness ==
    /\ commits = 1
    /\ Len(whCommitted) = NumTables
    /\ error = NoError

\* C3: once a dump() call has returned or raised, its temporary file no
\* longer exists.
C3_TempFileRemoved ==
    \A t \in TableIds :
        dumpStatus[t] \in {"returned", "raised"} => ~temp[t].exists

\* The records dump() number t has written: to its file object, to the
\* file on disk and to its object.
RecordsOf(t) ==
    { temp[t].buffered[k] : k \in 1..Len(temp[t].buffered) }
        \cup { temp[t].lines[k] : k \in 1..Len(temp[t].lines) }
        \cup (IF t \in uploaded
              THEN { objects[DumpTo(t, day)][k] :
                        k \in 1..Len(objects[DumpTo(t, day)]) }
              ELSE {})

\* C4: every record of the run carries the snapshot_date that the
\* partition path of the run embeds (the date in main()'s `day`), whatever
\* the clock does during the run.
C4_OneSnapshotDate ==
    \A t \in TableIds : \A rec \in RecordsOf(t) :
        DictGet(rec, "snapshot_date") = StrfYmd(day)

\* C5: when the query or the row iteration of a dump() call fails, after
\* any number of rows written, the call uploads nothing and there is no
\* object at its destination path.
C5_NoUploadAfterExtractionFailure ==
    error.step \in {"execute", "fetch"} =>
        /\ error.table \notin uploaded
        /\ "upload" \notin trace[error.table]
        /\ DumpTo(error.table, day) \notin DOMAIN objects

\* The iteration failed after at least one row had been written; the file
\* left on disk holds its line.
C5_Witness ==
    /\ error.step = "fetch"
    /\ Len(temp[error.table].lines) >= 1

\* The object at path p holds one record for every row of the complete
\* result set of the dump() call of its table, each with the row's values.
ObjectComplete(p) ==
    \E t \in TableIds :
        /\ p = DumpTo(t, day)
        /\ Len(objects[p]) = Len(results[t])
        /\ \A k \in 1..Len(results[t]) : \A i \in 1..Len(Columns(t)) :
              DictGet(objects[p][k], Columns(t)[i]) = results[t][k][i]

\* C6: an object at a destination path is absent or complete; the upload
\* starts only when every row is written and the file is closed.
C6_FullBlobOrNone ==
    /\ \A p \in DOMAIN objects : ObjectComplete(p)
    /\ pc = "upload" =>
          /\ temp[cur].closed
          /\ fetched = Len(cursorRows)
          /\ Len(temp[cur].lines) = Len(cursorRows)

\* A dump() failed with a strict, non-empty prefix of its result set in
\* its file, after the object of an earlier table was uploaded whole.
C6_Witness ==
    /\ pc = "failed"
    /\ error.table = 2
    /\ Len(temp[2].lines) >= 1
    /\ Len(temp[2].lines) < Len(results[2])
    /\ DumpTo(2, day) \notin DOMAIN objects
    /\ DumpTo(1, day) \in DOMAIN objects
    /\ Len(objects[DumpTo(1, day)]) >= 2

\* C7: the queries of the run execute in one source transaction, opened
\* before the first and not ended before the last, and all of them read
\* the same state of the source.
C7_OneSourceSnapshot ==
    /\ (InDump /\ seen[cur] # NoSnap) => srcTxn = "open"
    /\ \A t, u \in TableIds :
          (seen[t] # NoSnap /\ seen[u] # NoSnap) => seen[t] = seen[u]

\* C8: the dumps run in the order users, projects, activities; no step of
\* a table starts before the COPY of every table before it has returned.
C8_OneDumpAtATime ==
    \A t \in TableIds :
        trace[t] # {} => \A u \in 1..(t - 1) : u \in copied

\* The dump of activities has started, after the two before it loaded.
C8_Witness ==
    /\ trace[3] # {}
    /\ copied = {1, 2}

\* C9: when a step of the dump of a table fails, the run ends failed with
\* that error and no step of a later table is ever executed.
C9_FirstErrorEndsRun ==
    error.table \in TableIds =>
        /\ pc = "failed"
        /\ exitStatus = 1
        /\ error.step \in trace[error.table]
        /\ dumpStatus[error.table] = "raised"
        /\ \A u \in TableIds : u > error.table =>
              trace[u] = {} /\ dumpStatus[u] = "not_called"

\* The dump of users failed; projects and activities were never started.
C9_Witness ==
    /\ pc = "failed"
    /\ error.table = 1
    /\ error.step = "upload"

\* C10: no step of dump() changes what is committed in the warehouse; the
\* committed contents change only in the one redshift.commit() of main().
C10_DumpNeverCommits ==
    [][/\ pc # "commit" => whCommitted' = whCommitted
       /\ InDump => commits' = commits]_vars

\* dump() has executed the COPY of users and returned; nothing is visible.
C10_Witness ==
    /\ dumpStatus[1] = "returned"
    /\ Len(whPending) >= 1
    /\ whCommitted = <<>>

\* C13: the completion event is created at most once, and only after the
\* warehouse commit succeeded; a run in which a dump, a COPY or the commit
\* failed creates none.
C13_NotifyAfterCommit ==
    /\ notified <= 1
    /\ notified = 1 => (commits = 1 /\ copied = TableIds)
    /\ error.step \in DumpSteps \cup {"connect", "exit_txn", "commit"}
          => notified = 0

\* The run ended with the event created, after the commit.
C13_Witness ==
    /\ pc = "done"
    /\ notified = 1
    /\ commits = 1

\* C14 as stated: the process exits non-zero exactly when the warehouse
\* commit of the run did not take effect.
C14_ExitZeroIffCommitted ==
    pc \in Terminal => (exitStatus = 0 <=> commits = 1)

\* C14 as amended: the process exits 0 exactly when main() returned, that
\* is after three loaded dumps, the commit and the completion event; exit
\* status 0 implies the commit took effect, and a run without the commit
\* exits non-zero: 1 when an exception ended it, the signal's status when
\* it was killed.
C14_ExitStatus ==
    pc \in Terminal =>
        /\ exitStatus = 0 <=> pc = "done"
        /\ pc = "failed" =>
              (exitStatus = 1 /\ error # NoError)
        /\ pc = "killed" =>
              exitStatus \in { SignalStatus(sig) : sig \in Signals }
        /\ exitStatus = 0 =>
              /\ error = NoError /\ commits = 1 /\ notified = 1
              /\ copied = TableIds /\ VisibleTables = TableIds
        /\ commits = 0 => exitStatus # 0

\* The event raised after the commit: the exit status is 1 although the
\* rows of the run are committed.
C14_Witness ==
    /\ pc = "failed"
    /\ error.step = "notify"
    /\ exitStatus = 1
    /\ commits = 1
    /\ VisibleTables = TableIds

\* The COPY statements executed so far, pending or committed.
IssuedCopies == whPending \o whCommitted

\* C17: a dump() call executes its COPY only after its upload returned,
\* and the URI of the COPY is s3://<bucket>/<to_file> of the bucket and
\* the path the call uploaded to, whose object is the one it loads.
C17_CopyAfterUploadSameUri ==
    /\ \A t \in TableIds : "copy" \in trace[t] =>
          (t \in uploaded /\ "upload" \in trace[t])
    /\ \A i \in 1..Len(IssuedCopies) :
          /\ IssuedCopies[i].table \in uploaded
          /\ \E p \in DOMAIN objects :
                /\ p = DumpTo(IssuedCopies[i].table, day)
                /\ IssuedCopies[i].uri = "s3://" \o Bucket \o "/" \o p
                /\ IssuedCopies[i].rows = objects[p]

\* The COPY of activities has been executed, from the incremental blob.
C17_Witness ==
    /\ Len(whPending) = NumTables
    /\ whPending[3].table = 3
    /\ 3 \in uploaded

\* C18: the uploaded tables are a prefix of users, projects, activities,
\* the tables with a COPY executed are a prefix of the uploaded ones, at
\* most one table is uploaded and not yet copied; after a failed run the
\* uploaded blobs are still in the bucket and no row is committed.
C18_UploadCopyPrefixes ==
    /\ uploaded = 1..Cardinality(uploaded)
    /\ copied = 1..Cardinality(copied)
    /\ copied \subseteq uploaded
    /\ Cardinality(uploaded) - Cardinality(copied) <= 1
    /\ (pc = "failed" /\ commits = 0) =>
          /\ \A t \in uploaded : DumpTo(t, day) \in DOMAIN objects
          /\ whCommitted = <<>>

\* A run failed in the dump of activities: two blobs stay in the bucket
\* and nothing is committed.
C18_Witness ==
    /\ pc = "failed"
    /\ error.table = 3
    /\ uploaded = {1, 2}
    /\ Cardinality(DOMAIN objects) = 2
    /\ whCommitted = <<>>

\* C19: the warehouse is never committed while the source transaction is
\* open: on success the source transaction is committed after the third
\* COPY and before redshift.commit(); on a failure in the `with` block it
\* is rolled back and redshift.commit() is never reached.
C19_SourceEndsBeforeCommit ==
    /\ commits = 1 => (srcTxn = "committed" /\ copied = TableIds)
    /\ srcTxn = "open" => commits = 0
    /\ pc = "commit" => srcTxn = "committed"
    /\ (pc = "failed" /\ error.step \in DumpSteps \cup {"exit_txn"}) =>
          (srcTxn \in {"none", "rolledback"} /\ commits = 0)

\* The source transaction is committed and the warehouse commit is next.
C19_Witness ==
    /\ pc = "commit"
    /\ srcTxn = "committed"
    /\ commits = 0
    /\ copied = TableIds

(* ------------------------------------------- the record of a row, alone *)

\* Column names a cursor may report, a column called snapshot_date among
\* them.
ProbeNames == {"id", "name", "snapshot_date"}

\* The cursor descriptions tried: every sequence of up to MaxCols names.
ProbeDescriptions == UNION { [1..n -> ProbeNames] : n \in 0..MaxCols }

\* The row of a description: one value per column, all different.
ProbeRow(cols) == [i \in 1..Len(cols) |-> "v" \o ToString(i)]

\* The values of datetime.today() tried on lines 29-30: a day inside a
\* month, and the first of March of a leap year.
ProbeTodays ==
    { [y |-> 2023, m |-> 3, d |-> 6], [y |-> 2024, m |-> 3, d |-> 1] }

InitRecord ==
    /\ RunInit
    /\ src = [t \in TableIds |-> <<>>]
    /\ isolation = "read committed"
    /\ prev = NoPrev
    /\ \E cols \in ProbeDescriptions, today \in ProbeTodays :
          probe = [kind |-> "record", cols |-> cols, row |-> ProbeRow(cols),
                   today |-> today, out |-> <<>>, done |-> FALSE]

runVars == <<pc, cur, clock, ticks, day, src, inserts, isolation, srcTxn,
             txnSnap, cursorRows, fetched, temp, objects, whPending,
             whCommitted, commits, notified, error, exitStatus, dumpStatus,
             trace, uploaded, copied, seen, results, prev>>

\* lines 29-32 on one row
BuildRecord ==
    /\ probe.kind = "record"
    /\ ~probe.done
    /\ probe' = [probe EXCEPT
                    !.out = MakeRecord(probe.cols, probe.row, probe.today),
                    !.done = TRUE]
    /\ UNCHANGED runVars

SpecRecord == InitRecord /\ [][BuildRecord]_vars

\* C15: the record of a row has the key snapshot_date first, then every
\* column of the cursor description in order, each with the value at its
\* index of the row: one key more than there are columns, whatever the
\* column names.
C15_RecordKeys ==
    (probe.kind = "record" /\ probe.done) =>
        /\ Len(probe.out) = Len(probe.cols) + 1
        /\ probe.out[1] = <<"snapshot_date", StrfYmd(Yesterday(probe.today))>>
        /\ \A i \in 1..Len(probe.cols) :
              probe.out[i + 1] = <<probe.cols[i], probe.row[i]>>

(* ------------------------------------------------ the dump_to path, alone *)

\* Every date of 2023 and 2024.
ProbeDates ==
    { dt \in [y : {2023, 2024}, m : 1..12, d : 1..31] :
        dt.d <= DaysInMonth(dt.y, dt.m) }

InitPath ==
    /\ RunInit
    /\ src = [t \in TableIds |-> <<>>]
    /\ isolation = "read committed"
    /\ clock = [y |-> 2023, m |-> 3, d |-> 6]
    /\ prev = NoPrev
    /\ \E t \in TableIds, dt \in ProbeDates :
          probe = [kind |-> "path", table |-> t, date |-> dt, out |-> "",
                   done |-> FALSE]

\* lines 68-75, 88, 102 for one date and one dump() call
BuildPath ==
    /\ probe.kind = "path"
    /\ ~probe.done
    /\ probe' = [probe EXCEPT !.out = DumpTo(probe.table, probe.date),
                              !.done = TRUE]
    /\ UNCHANGED runVars

SpecPath == InitPath /\ [][BuildPath]_vars

DigitText == <<"0", "1", "2", "3", "4", "5", "6", "7", "8", "9">>

\* The two decimal digits of n < 100.
TwoDigits(n) == DigitText[(n \div 10) + 1] \o DigitText[(n % 10) + 1]

\* The four decimal digits of y < 10000.
FourDigits(y) == TwoDigits(y \div 100) \o TwoDigits(y % 100)

\* C16: the path of a dataset and a date is
\* <dataset>/snapshot_year=<YYYY>/snapshot_month=<MM>/snapshot_day=<DD>/<leaf>
\* with month and day in two digits; for 2023-03-05 and users it is
\* users/snapshot_year=2023/snapshot_month=03/snapshot_day=05/data.
C16_PartitionPath ==
    (probe.kind = "path" /\ probe.done) =>
        /\ probe.out =
              Tables[probe.table] \o "/snapshot_year="
                  \o FourDigits(probe.date.y)
                  \o "/snapshot_month=" \o TwoDigits(probe.date.m)
                  \o "/snapshot_day=" \o TwoDigits(probe.date.d)
                  \o "/" \o Leaf(probe.table)
        /\ (probe.table = 1 /\ probe.date = [y |-> 2023, m |-> 3, d |-> 5])
              => probe.out = "users/snapshot_year=2023/snapshot_month=03/snapshot_day=05/data"

\* The path of users for 2023-03-05 has been built.
C16_Witness ==
    /\ probe.kind = "path"
    /\ probe.done
    /\ probe.table = 1
    /\ probe.date = [y |-> 2023, m |-> 3, d |-> 5]

(* ---------------------------------------------------------------- reruns *)

\* The first run of the rerun specification: one start date, the default
\* isolation level, at least one row in every source table.
InitRerun ==
    /\ Init
    /\ clock = [y |-> 2023, m |-> 3, d |-> 6]
    /\ isolation = "read committed"
    /\ \A t \in TableIds : Len(src[t]) >= 1

\* lines 124-125, once more: the scheduler starts main() again after the
\* process of the previous run exited.  The bucket, the committed rows of
\* the warehouse, the source and the clock are what the previous run left;
\* the temporary files it did not remove stay on disk under their names.
Rerun ==
    /\ pc \in {"done", "failed"}
    /\ prev.run + 1 < MaxRuns
    /\ prev' = [run |-> prev.run + 1, day |-> day, uploaded |-> uploaded,
                objects |-> objects, results |-> results,
                leaked |-> prev.leaked
                             + Cardinality({t \in TableIds : temp[t].exists})]
    /\ pc' = "connect"
    /\ cur' = 0
    /\ day' = NoDate
    /\ srcTxn' = "none"
    /\ txnSnap' = NoSnap
    /\ cursorRows' = <<>>
    /\ fetched' = 0
    /\ temp' = [t \in TableIds |-> NoTemp]
    /\ whPending' = <<>>
    /\ commits' = 0
    /\ notified' = 0
    /\ error' = NoError
    /\ exitStatus' = -1
    /\ dumpStatus' = [t \in TableIds |-> "not_called"]
    /\ trace' = [t \in TableIds |-> {}]
    /\ uploaded' = {}
    /\ copied' = {}
    /\ seen' = [t \in TableIds |-> NoSnap]
    /\ results' = [t \in TableIds |-> <<>>]
    /\ UNCHANGED <<objects, whCommitted, isolation, probe>>
    /\ UNCHANGED envVars

NextRerun ==
    \/ Connect
    \/ EnterTxn
    \/ OpenCursor
    \/ MakeTemp
    \/ Execute
    \/ WriteRow
    \/ CloseTemp
    \/ Upload
    \/ RemoveTemp
    \/ CloseCursor
    \/ Copy
    \/ ExitTxn
    \/ Commit
    \/ Notify
    \/ Return
    \/ Fail
    \/ Tick
    \/ Rerun

SpecRerun == InitRerun /\ [][NextRerun]_vars

\* C11: over the runs for one snapshot date, no table has the date's rows
\* committed by more than one COPY, and after a run that succeeded every
\* table has them committed by exactly one.
C11_ExactlyOncePerDay ==
    /\ \A i, j \in 1..Len(whCommitted) :
          (/\ i # j
           /\ whCommitted[i].table = whCommitted[j].table)
              => whCommitted[i].uri # whCommitted[j].uri
    /\ pc = "done" =>
          \A t \in TableIds :
              Cardinality({ i \in 1..Len(whCommitted) :
                              /\ whCommitted[i].table = t
                              /\ whCommitted[i].uri
                                    = S3Uri(Bucket, DumpTo(t, day)) }) = 1

\* dump() number t of this run has uploaded for the snapshot date of the
\* previous run, from the rows the previous run's dump() number t wrote.
SameBlobInput(t) ==
    /\ prev.run >= 1
    /\ t \in uploaded
    /\ t \in prev.uploaded
    /\ prev.day = day
    /\ prev.results[t] = results[t]

\* C12: writing the blob of a dataset twice for the same snapshot date
\* from identical rows leaves the object at the destination path with the
\* content it had after the first time: the second upload overwrites.
C12_BlobIdempotent ==
    \A t \in TableIds :
        SameBlobInput(t) =>
            objects[DumpTo(t, day)] = prev.objects[DumpTo(t, day)]

====
